---------------------------- MODULE Spec2Model ----------------------------
(***************************************************************************)
(* Model of telegram_bot.py: the data-bundle purchase conversation, its    *)
(* phone normalizer, its offer catalog, the user directory and the         *)
(* dispatch of inbound Telegram updates to the handlers registered in      *)
(* main().                                                                 *)
(*                                                                         *)
(* Text is modelled as a sequence of one-character strings, so that the    *)
(* regular expressions and the string conversions of the code are          *)
(* computed character by character.                                        *)
(***************************************************************************)
EXTENDS Integers, Sequences, FiniteSets, TLC

(***************************************************************************)
(* Bounds of the model.                                                    *)
(***************************************************************************)
\* separators inserted into a phone input of the normalizer's specification
MaxSeparators == 1
\* transaction references generated (confirmations handled) in one behaviour
MaxReferences == 2
\* profiles in the user directory when an administrator broadcasts
MaxUsers == 11
\* the latest time of the clock of the directory's specification
MaxTime == 2

(***************************************************************************)
(* Python's None, for the values that are strings or keys in the model.    *)
(***************************************************************************)
None == "None"

\* A phone number that is absent (user_data.get('phone_number') is None, or
\* is_valid_phone_number returned None).  Phone numbers are sequences of
\* characters and the normalizer never returns an empty string.
NoPhone == <<>>

(***************************************************************************)
(* Characters.                                                             *)
(***************************************************************************)
\* \d of Python's re on the modelled alphabet
Digits == {"0", "1", "2", "3", "4", "5", "6", "7", "8", "9"}

\* the class [\s\-\(\)] removed by re.sub in is_valid_phone_number
SeparatorChars == {" ", "\t", "\n", "\r", "\f", "-", "(", ")"}

CharValue(c) ==
    CASE c = "0" -> 0 [] c = "1" -> 1 [] c = "2" -> 2 [] c = "3" -> 3
      [] c = "4" -> 4 [] c = "5" -> 5 [] c = "6" -> 6 [] c = "7" -> 7
      [] c = "8" -> 8 [] c = "9" -> 9

IsSeparator(c) == c \in SeparatorChars

IsDigit(c) == c \in Digits

\* s starts with the characters of p
StartsWith(s, p) ==
    /\ Len(s) >= Len(p)
    /\ \A i \in 1..Len(p) : s[i] = p[i]

\* s without its first n characters
DropChars(s, n) == SubSeq(s, n + 1, Len(s))

(***************************************************************************)
(* is_valid_phone_number                                                   *)
(***************************************************************************)
\* the {8} of \d{8} in the four patterns
SubscriberDigits == 8

Plus254 == <<"+", "2", "5", "4">>
Short254 == <<"2", "5", "4">>

\* a substitution whose character class lacks the parentheses:
\* re.sub(r'[\s\-]', '', phone)
StripWithoutParentheses(phone) ==
    SelectSeq(phone, LAMBDA c : c \notin {" ", "\t", "\n", "\r", "\f", "-"})

\* re.sub(r'[\s\-\(\)]', '', phone)
StripSeparators(phone) == SelectSeq(phone, LAMBDA c : ~IsSeparator(c))

\* the group (7\d{8}) or (1\d{8}) anchored at both ends: lead then exactly
\* SubscriberDigits digits
MatchesGroup(s, lead) ==
    /\ Len(s) = 1 + SubscriberDigits
    /\ s[1] = lead
    /\ \A i \in 2..Len(s) : IsDigit(s[i])

\* re.match(r'^(?:\+254|254)?(<lead>\d{8})$', phone): group(1), or NoPhone
\* when there is no match.  The optional prefix is tried as +254, then 254,
\* then as absent.
MatchCountryPattern(phone, lead) ==
    IF StartsWith(phone, Plus254) /\ MatchesGroup(DropChars(phone, 4), lead)
      THEN DropChars(phone, 4)
    ELSE IF StartsWith(phone, Short254) /\ MatchesGroup(DropChars(phone, 3), lead)
      THEN DropChars(phone, 3)
    ELSE IF MatchesGroup(phone, lead)
      THEN phone
    ELSE NoPhone

\* re.match(r'^0(<lead>\d{8})$', phone): group(1), or NoPhone
MatchNationalPattern(phone, lead) ==
    IF StartsWith(phone, <<"0">>) /\ MatchesGroup(DropChars(phone, 1), lead)
      THEN DropChars(phone, 1)
    ELSE NoPhone

\* the list `patterns`, in order: the group captured by each pattern
PatternMatches(phone) ==
    << MatchCountryPattern(phone, "7"),
       MatchCountryPattern(phone, "1"),
       MatchNationalPattern(phone, "7"),
       MatchNationalPattern(phone, "1") >>

\* the loop over patterns: the first match gives f"254{match.group(1)}"
FirstMatch(ms) ==
    IF \E i \in 1..Len(ms) : ms[i] # NoPhone
      THEN LET i == CHOOSE j \in 1..Len(ms) :
                      /\ ms[j] # NoPhone
                      /\ \A k \in 1..(j - 1) : ms[k] = NoPhone
           IN  Short254 \o ms[i]
      ELSE NoPhone

is_valid_phone_number(phone) == FirstMatch(PatternMatches(StripSeparators(phone)))


(***************************************************************************)
(* Catalog: data_packages                                                  *)
(***************************************************************************)
\* DataPackage.__init__
DataPackage(display_name, price, size, validity, description) ==
    [display_name |-> display_name, price |-> price, size |-> size,
     validity |-> validity, description |-> description]

\* the dict data_packages, keyed by the callback data of each offer
data_packages ==
    [k \in {"data_1", "data_2", "data_3", "data_4", "data_5", "data_6",
            "data_7", "data_8", "data_9", "data_10", "data_11"} |->
       CASE k = "data_1" -> DataPackage("1.25GB till midnight @ Ksh 55", 55, "1.25GB", "Until midnight", "Same day data bundle")
         [] k = "data_2" -> DataPackage("250MB for 24hrs @ Ksh 18", 18, "250MB", "24 Hours", "Daily data bundle")
         [] k = "data_3" -> DataPackage("1GB for 1hr @ Ksh 19", 19, "1GB", "1 Hour", "Hourly data bundle")
         [] k = "data_4" -> DataPackage("Internet access for 3hrs @ Ksh 49", 49, "Unlimited", "3 Hours", "Hourly access bundle")
         [] k = "data_5" -> DataPackage("1GB for 24hrs @ Ksh 95", 95, "1GB", "24 Hours", "Daily data bundle")
         [] k = "data_6" -> DataPackage("350MB for 7 days @ Ksh 47", 47, "350MB", "7 Days", "Weekly data bundle")
         [] k = "data_7" -> DataPackage("2GB for 24hrs @ Ksh 100", 100, "2GB", "24 Hours", "Daily data bundle")
         [] k = "data_8" -> DataPackage("1.2GB for 30days @ Ksh 250", 250, "1.2GB", "30 Days", "Monthly data bundle")
         [] k = "data_9" -> DataPackage("1GB for 1hr @ Ksh 20", 20, "1GB", "1 Hour", "Hourly data bundle")
         [] k = "data_10" -> DataPackage("1.5GB for 3hrs @ Ksh 50", 50, "1.5GB", "3 Hours", "Hourly data bundle")
         [] k = "data_11" -> DataPackage("2GB for 24hrs @ Ksh 100", 100, "2GB", "24 Hours", "Daily data bundle")]

\* the insertion order of the dict, which is its iteration order
PackageOrder ==
    <<"data_1", "data_2", "data_3", "data_4", "data_5", "data_6",
      "data_7", "data_8", "data_9", "data_10", "data_11">>

\* a lookup that takes every choice for an offer of the catalog
AnyPackage(choice) == choice

\* data_packages.get(choice): the key when present, None otherwise.  The
\* session refers to an offer by its key; the DataPackage is
\* data_packages[key].
GetPackage(choice) == IF choice \in DOMAIN data_packages THEN choice ELSE None

(***************************************************************************)
(* Callback data and how it is spelled.  Callback data is a string; the   *)
(* table gives the characters of the strings whose characters the code    *)
(* inspects (the offer keys and the ids matched against data_\d+).         *)
(***************************************************************************)
DataPrefix == <<"d", "a", "t", "a", "_">>
AdminPrefix == <<"a", "d", "m", "i", "n", "_">>

Spelling(id) ==
    CASE id = "data_0" -> DataPrefix \o <<"0">>
      [] id = "data_1" -> DataPrefix \o <<"1">>
      [] id = "data_2" -> DataPrefix \o <<"2">>
      [] id = "data_3" -> DataPrefix \o <<"3">>
      [] id = "data_4" -> DataPrefix \o <<"4">>
      [] id = "data_5" -> DataPrefix \o <<"5">>
      [] id = "data_6" -> DataPrefix \o <<"6">>
      [] id = "data_7" -> DataPrefix \o <<"7">>
      [] id = "data_8" -> DataPrefix \o <<"8">>
      [] id = "data_9" -> DataPrefix \o <<"9">>
      [] id = "data_10" -> DataPrefix \o <<"1", "0">>
      [] id = "data_11" -> DataPrefix \o <<"1", "1">>
      [] id = "data_12" -> DataPrefix \o <<"1", "2">>
      [] id = "data_" -> DataPrefix
      [] id = "data_x" -> DataPrefix \o <<"x">>
      [] id = "admin_broadcast" ->
             AdminPrefix \o <<"b", "r", "o", "a", "d", "c", "a", "s", "t">>
      [] id = "admin_stats" -> AdminPrefix \o <<"s", "t", "a", "t", "s">>
      [] id = "admin_exit" -> AdminPrefix \o <<"e", "x", "i", "t">>
      [] id = "admin_users" -> AdminPrefix \o <<"u", "s", "e", "r", "s">>
      [] OTHER -> <<>>

\* k.split('_'): the pieces of s between underscores
RECURSIVE SplitUnderscore(_)
SplitUnderscore(s) ==
    IF \E i \in 1..Len(s) : s[i] = "_"
      THEN LET i == CHOOSE j \in 1..Len(s) :
                      /\ s[j] = "_"
                      /\ \A k \in 1..(j - 1) : s[k] # "_"
           IN  <<SubSeq(s, 1, i - 1)>> \o SplitUnderscore(DropChars(s, i))
      ELSE <<s>>

\* int(digits) for a string of decimal digits
RECURSIVE ParseInt(_)
ParseInt(ds) ==
    IF ds = <<>> THEN 0
    ELSE 10 * ParseInt(SubSeq(ds, 1, Len(ds) - 1)) + CharValue(ds[Len(ds)])

\* int(k.split('_')[1])
KeyNumber(k) == ParseInt(SplitUnderscore(Spelling(k))[2])

\* the threshold of the two filters: <= 8 is Bingwa, > 8 is Normal
BingwaMaxNumber == 8

\* a Bingwa filter with < in place of <=
bingwa_packages_below == SelectSeq(PackageOrder, LAMBDA k : KeyNumber(k) < BingwaMaxNumber)

\* {k: v for k, v in data_packages.items() if int(k.split('_')[1]) <= 8},
\* as the keys in iteration order
bingwa_packages == SelectSeq(PackageOrder, LAMBDA k : KeyNumber(k) <= BingwaMaxNumber)

\* {k: v for k, v in data_packages.items() if int(k.split('_')[1]) > 8}
normal_packages == SelectSeq(PackageOrder, LAMBDA k : KeyNumber(k) > BingwaMaxNumber)


(***************************************************************************)
(* Conversation states, users, chats and inbound updates                   *)
(***************************************************************************)
\* CHOOSING_PACKAGE, GETTING_PHONE, CONFIRMING_PURCHASE = range(3), and
\* ConversationHandler.END (no conversation: the Idle state)
CHOOSING_PACKAGE == "CHOOSING_PACKAGE"
GETTING_PHONE == "GETTING_PHONE"
CONFIRMING_PURCHASE == "CONFIRMING_PURCHASE"
END == "END"

\* ADMIN_COMMAND, ADMIN_BROADCAST_MESSAGE = range(100, 102)
ADMIN_COMMAND == "ADMIN_COMMAND"
ADMIN_BROADCAST_MESSAGE == "ADMIN_BROADCAST_MESSAGE"

ConversationStates == {END, CHOOSING_PACKAGE, GETTING_PHONE, CONFIRMING_PURCHASE}

\* Telegram user ids and chat ids.  c1 is the private chat of u1 with the
\* bot; c2 is a group chat of which the bot, u1 and u2 are members.
Users == {"u1", "u2"}
Chats == {"c1", "c2"}

\* per_chat=True with the default per_user=True: one conversation per
\* (chat, user)
ConversationKeys == {<<"c1", "u1">>, <<"c2", "u1">>, <<"c2", "u2">>}

\* update.effective_user
EffectiveUser(id, name) ==
    [id |-> id, username |-> name, first_name |-> name, last_name |-> name]

\* An inbound update: a command (/name), a button press (callback data) or
\* a text message that is no command.
Command(name) == [kind |-> "command", data |-> name, text |-> <<>>]
Callback(data) == [kind |-> "callback", data |-> data, text |-> <<>>]
Text(body) == [kind |-> "text", data |-> "", text |-> body]

(***************************************************************************)
(* State                                                                   *)
(***************************************************************************)
VARIABLES
    conversations,  \* conv_handler's state of each (chat, user) key
    user_data,      \* context.user_data of each user
    posts,          \* how many requests were posted to the payment gateway
    request,        \* the payload of the last request posted
    references,     \* how many transaction references were generated
    users_file,     \* the "users" list stored in USER_DATA_FILE
    now,            \* datetime.datetime.now()
    out,            \* the messages sent while handling the last update
    last,           \* the last update handled, and by which handler
    response,       \* the gateway's reply to the request posted while handling it
    admin_conversations, \* admin_handler's state of each (chat, user) key
    sending,        \* admin_broadcast is in its loop over the users
    broadcast_users, \* admin_broadcast: users, data["users"] as loaded
    pending,        \* admin_broadcast: the users the loop has yet to visit
    attempted,      \* admin_broadcast: the chat ids of the send_message calls, in order
    undelivered,    \* admin_broadcast: how many of these calls raised
    sent_count,     \* admin_broadcast: sent_count
    failed_count,   \* admin_broadcast: failed_count
    phone_base,     \* normalizer: the input before separators were inserted
    phone_input,    \* normalizer: the input
    phone_result,   \* normalizer: is_valid_phone_number(phone_input)
    phone_again,    \* normalizer: is_valid_phone_number(phone_result)
    phone_stage,    \* normalizer: "input", "normalized" or "renormalized"
    timeout_jobs,   \* conv_handler.timeout_jobs: the keys with a timeout job scheduled
    storage_fault,  \* which access to USER_DATA_FILE failed in the last registration
    in_flight       \* requests.post has been called and has not returned

vars == <<conversations, user_data, posts, request, references, users_file, now,
          out, last, response, admin_conversations, sending, broadcast_users, pending,
          attempted, undelivered, sent_count, failed_count, phone_base, phone_input,
          phone_result, phone_again, phone_stage, timeout_jobs,
          storage_fault, in_flight>>

botVars == <<conversations, user_data, posts, request, references, users_file, now,
             out, last, response>>

broadcastVars == <<sending, broadcast_users, pending, attempted, undelivered,
                   sent_count, failed_count>>

adminVars == <<admin_conversations, sending, broadcast_users, pending, attempted,
               undelivered, sent_count, failed_count>>

phoneVars == <<phone_base, phone_input, phone_result, phone_again, phone_stage>>

environmentVars == <<storage_fault, in_flight>>

\* The application processes the updates one at a time (no concurrent_updates),
\* and requests.post blocks the thread of the event loop until it returns: a
\* handler starts only when no handler is running.
NoHandlerRunning == ~sending /\ ~in_flight

\* an empty context.user_data: every .get() gives None
NoReference == <<>>
EmptyUserData == [package |-> None, phone_number |-> NoPhone, reference |-> NoReference]

\* a message sent by the bot: the chat, which text, the callback data of its
\* inline keyboard and the values the text shows
Message(chat, text, keyboard, shows) ==
    [chat |-> chat, text |-> text, keyboard |-> keyboard, shows |-> shows]

\* what requests.post and response.json() can give: an exception, or a
\* response with a status code and a body that is JSON or not
GatewayReply(raises, status_code, is_json, success, status) ==
    [raises |-> raises, status_code |-> status_code, is_json |-> is_json,
     success |-> success, status |-> status]

\* no request was posted, so there is no reply
NoResponse == GatewayReply(FALSE, 0, FALSE, FALSE, "")

(***************************************************************************)
(* Helpers                                                                 *)
(***************************************************************************)
\* format_timestamp and generate_reference: the prefix, the time and a
\* part that differs for every reference generated (uuid4)
generate_reference == <<"BINGWA", now, references + 1>>

WhitespaceChars == {" ", "\t", "\n", "\r", "\f"}

\* str.strip()
RECURSIVE Strip(_)
Strip(s) ==
    IF s = <<>> THEN s
    ELSE IF s[1] \in WhitespaceChars THEN Strip(Tail(s))
    ELSE IF s[Len(s)] \in WhitespaceChars THEN Strip(SubSeq(s, 1, Len(s) - 1))
    ELSE s

\* load_user_data, without a storage failure
load_user_data == users_file

\* the loop of register_user over data["users"]: the first record with the
\* user's id is updated in place
RECURSIVE UpdateUser(_, _)
UpdateUser(users, user) ==
    IF users = <<>> THEN <<>>
    ELSE IF Head(users).id = user.id
      THEN <<[Head(users) EXCEPT !.username = user.username,
                                 !.first_name = user.first_name,
                                 !.last_name = user.last_name,
                                 !.last_active = now]>> \o Tail(users)
    ELSE <<Head(users)>> \o UpdateUser(Tail(users), user)

\* register_user without the search for the user's record
register_user_appending(users, user) ==
    Append(users, [id |-> user.id, username |-> user.username,
                   first_name |-> user.first_name, last_name |-> user.last_name,
                   joined |-> now, last_active |-> now])

\* register_user, given the list load_user_data() returned: the list it saves
register_user(users, user) ==
    IF \E i \in 1..Len(users) : users[i].id = user.id
      THEN UpdateUser(users, user)
      ELSE Append(users, [id |-> user.id, username |-> user.username,
                          first_name |-> user.first_name,
                          last_name |-> user.last_name,
                          joined |-> now, last_active |-> now])

(***************************************************************************)
(* Keyboards                                                               *)
(***************************************************************************)
\* show_bundles and back_to_categories
CategoryKeyboard == <<"bingwa_deals", "normal_deals", "support", "cancel_purchase">>

\* show_bingwa_deals, show_normal_deals: one button per package, then the
\* navigation buttons
PackageKeyboard(packages) ==
    packages \o <<"back_to_categories", "support", "cancel_purchase">>

\* get_phone_number
ConfirmKeyboard == <<"confirm_purchase", "change_phone", "cancel_purchase">>


(***************************************************************************)
(* main(): which handler an update reaches                                 *)
(***************************************************************************)
\* r'^(data_\d+|section_header|support|bingwa_deals|normal_deals|back_to_categories)$'
MatchesDataDigits(data) ==
    LET s == Spelling(data)
    IN  /\ StartsWith(s, DataPrefix)
        /\ Len(s) > Len(DataPrefix)
        /\ \A i \in (Len(DataPrefix) + 1)..Len(s) : IsDigit(s[i])

choose_package_pattern(data) ==
    \/ MatchesDataDigits(data)
    \/ data \in {"section_header", "support", "bingwa_deals", "normal_deals",
                 "back_to_categories"}

\* '^(confirm_purchase|change_phone)$'
confirm_pattern(data) == data \in {"confirm_purchase", "change_phone"}

\* a fallback pattern that does not match the button's callback data: '^cancel$'
cancel_pattern_short(data) == data = "cancel"

\* '^cancel_purchase$'
cancel_pattern(data) == data = "cancel_purchase"

\* '^admin_': re.match anchors the pattern at the start only
admin_pattern(data) == StartsWith(Spelling(data), AdminPrefix)

\* check_update of each handler object, named by its callback
Accepts(handler, upd) ==
    CASE handler = "start" -> upd.kind = "command" /\ upd.data = "start"
      [] handler = "show_bundles" -> upd.kind = "command" /\ upd.data = "bundles"
      [] handler = "restart_command" -> upd.kind = "command" /\ upd.data = "restart"
      [] handler = "help_command" -> upd.kind = "command" /\ upd.data = "help"
      [] handler = "about_command" -> upd.kind = "command" /\ upd.data = "about"
      [] handler = "contact_support" -> upd.kind = "command" /\ upd.data = "support"
      [] handler = "choose_package" -> upd.kind = "callback" /\ choose_package_pattern(upd.data)
      [] handler = "handle_confirmation" -> upd.kind = "callback" /\ confirm_pattern(upd.data)
      [] handler = "cancel_purchase" -> upd.kind = "callback" /\ cancel_pattern(upd.data)
      [] handler = "get_phone_number" -> upd.kind = "text"
      [] handler = "admin_command" -> upd.kind = "command" /\ upd.data = "admin"
      [] handler = "admin_handle_choice" -> upd.kind = "callback" /\ admin_pattern(upd.data)
      [] handler = "admin_broadcast" -> upd.kind = "text"
      [] handler = "admin_cancel" -> upd.kind = "command" /\ upd.data = "cancel"

\* the first handler of a list that accepts the update, or None
RECURSIVE FirstHandler(_, _)
FirstHandler(handlers, upd) ==
    IF handlers = <<>> THEN None
    ELSE IF Accepts(Head(handlers), upd) THEN Head(handlers)
    ELSE FirstHandler(Tail(handlers), upd)

\* entry points to which the handler of the menu buttons was added
entry_points_with_buttons ==
    <<"start", "show_bundles", "restart_command", "choose_package">>

\* conv_handler: entry_points, states and fallbacks
entry_points == <<"start", "show_bundles", "restart_command">>

StateHandlers(state) ==
    CASE state = CHOOSING_PACKAGE -> <<"choose_package", "cancel_purchase">>
      [] state = GETTING_PHONE -> <<"get_phone_number", "cancel_purchase">>
      [] state = CONFIRMING_PURCHASE -> <<"handle_confirmation", "cancel_purchase">>

fallbacks == <<"cancel_purchase", "restart_command">>

\* ConversationHandler.check_update with allow_reentry left False: outside a
\* conversation only the entry points are tried; inside one the handlers of
\* the state, then the fallbacks
conv_handler(state, upd) ==
    IF state = END THEN FirstHandler(entry_points, upd)
    ELSE LET h == FirstHandler(StateHandlers(state), upd)
         IN  IF h # None THEN h ELSE FirstHandler(fallbacks, upd)

\* admin_handler: entry_points, states and fallbacks
admin_entry_points == <<"admin_command">>

AdminStateHandlers(state) ==
    CASE state = ADMIN_COMMAND -> <<"admin_handle_choice">>
      [] state = ADMIN_BROADCAST_MESSAGE -> <<"admin_broadcast", "admin_cancel">>

admin_fallbacks == <<"admin_cancel", "restart_command">>

admin_handler(state, upd) ==
    IF state = END THEN FirstHandler(admin_entry_points, upd)
    ELSE LET h == FirstHandler(AdminStateHandlers(state), upd)
         IN  IF h # None THEN h ELSE FirstHandler(admin_fallbacks, upd)

\* the handlers added to the application after the conversation handlers;
\* all are in one group, so the first that accepts the update handles it
application_handlers == <<"help_command", "about_command", "contact_support", "restart_command">>

\* application.add_handler in the order of main(): conv_handler, then
\* admin_handler, then the command handlers
Route(chat, uid, upd) ==
    LET h == conv_handler(conversations[<<chat, uid>>], upd)
    IN  IF h # None THEN h
        ELSE LET a == admin_handler(admin_conversations[<<chat, uid>>], upd)
             IN  IF a # None THEN a ELSE FirstHandler(application_handlers, upd)

\* what `last` records of a handled update
Handled(chat, uid, upd, handler, raised) ==
    [kind |-> upd.kind, data |-> upd.data, text |-> upd.text, chat |-> chat,
     user |-> uid, state |-> conversations[<<chat, uid>>],
     admin_state |-> admin_conversations[<<chat, uid>>], handler |-> handler,
     raised |-> raised]


(***************************************************************************)
(* Handlers of the purchase conversation                                   *)
(***************************************************************************)
SetState(chat, uid, state) ==
    conversations' = [conversations EXCEPT ![<<chat, uid>>] = state]

\* ConversationHandler.handle_update removes the timeout job of the key before
\* it runs the handler, and schedules a new one (conversation_timeout=180)
\* once the handler has returned a state other than END; a handler that
\* raises leaves the key without a job.
ScheduleJob(chat, uid, state, raised) ==
    timeout_jobs' = IF raised \/ state = END
                       THEN timeout_jobs \ {<<chat, uid>>}
                       ELSE timeout_jobs \cup {<<chat, uid>>}

\* show_bundles: the category menu
CategoryMenu(chat) == Message(chat, "select_category", CategoryKeyboard, <<>>)

\* start: /start
Start(chat, user, upd) ==
    /\ NoHandlerRunning
    /\ Route(chat, user.id, upd) = "start"
    /\ users_file' = register_user(register_user(load_user_data, user), user)
    /\ user_data' = [user_data EXCEPT ![user.id] = EmptyUserData]
    /\ out' = <<Message(chat, "welcome", <<>>, <<>>), CategoryMenu(chat)>>
    /\ SetState(chat, user.id, CHOOSING_PACKAGE)
    /\ ScheduleJob(chat, user.id, CHOOSING_PACKAGE, FALSE)
    /\ response' = NoResponse
    /\ last' = Handled(chat, user.id, upd, "start", FALSE)
    /\ UNCHANGED <<posts, request, references, now>>
    /\ UNCHANGED phoneVars
    /\ UNCHANGED environmentVars
    /\ UNCHANGED adminVars

\* show_bundles: /bundles
ShowBundles(chat, user, upd) ==
    /\ NoHandlerRunning
    /\ Route(chat, user.id, upd) = "show_bundles"
    /\ users_file' = register_user(load_user_data, user)
    /\ out' = <<CategoryMenu(chat)>>
    /\ SetState(chat, user.id, CHOOSING_PACKAGE)
    /\ ScheduleJob(chat, user.id, CHOOSING_PACKAGE, FALSE)
    /\ response' = NoResponse
    /\ last' = Handled(chat, user.id, upd, "show_bundles", FALSE)
    /\ UNCHANGED <<user_data, posts, request, references, now>>
    /\ UNCHANGED phoneVars
    /\ UNCHANGED environmentVars
    /\ UNCHANGED adminVars

\* restart_command: /restart
RestartCommand(chat, user, upd) ==
    /\ NoHandlerRunning
    /\ Route(chat, user.id, upd) = "restart_command"
    /\ user_data' = [user_data EXCEPT ![user.id] = EmptyUserData]
    /\ users_file' = register_user(load_user_data, user)
    /\ out' = <<Message(chat, "restarted", <<>>, <<>>), CategoryMenu(chat)>>
    /\ SetState(chat, user.id, CHOOSING_PACKAGE)
    /\ ScheduleJob(chat, user.id, CHOOSING_PACKAGE, FALSE)
    /\ response' = NoResponse
    /\ last' = Handled(chat, user.id, upd, "restart_command", FALSE)
    /\ UNCHANGED <<posts, request, references, now>>
    /\ UNCHANGED phoneVars
    /\ UNCHANGED environmentVars
    /\ UNCHANGED adminVars

\* choose_package: the state it returns
ChoosePackageState(choice) ==
    IF choice \in {"back_to_categories", "bingwa_deals", "normal_deals", "support"}
      THEN CHOOSING_PACKAGE
    ELSE IF choice = "cancel_purchase" THEN END
    ELSE IF GetPackage(choice) = None THEN CHOOSING_PACKAGE
    ELSE GETTING_PHONE

\* choose_package: the messages it sends
ChoosePackageOut(chat, choice) ==
    IF choice = "back_to_categories"
      THEN <<Message(chat, "select_category_again", CategoryKeyboard, <<>>)>>
    ELSE IF choice = "bingwa_deals"
      THEN <<Message(chat, "bingwa_deals", PackageKeyboard(bingwa_packages), <<>>)>>
    ELSE IF choice = "normal_deals"
      THEN <<Message(chat, "normal_deals", PackageKeyboard(normal_packages), <<>>)>>
    ELSE IF choice = "support"
      THEN <<Message(chat, "support_info", <<>>, <<>>)>>
    ELSE IF choice = "cancel_purchase"
      THEN <<Message(chat, "cancelled", <<>>, <<>>)>>
    ELSE IF GetPackage(choice) = None
      THEN <<Message(chat, "invalid_package", <<>>, <<>>)>>
    ELSE <<Message(chat, "enter_phone", <<>>, <<GetPackage(choice)>>)>>

\* choose_package: context.user_data after it
ChoosePackageData(data, choice) ==
    IF /\ choice \notin {"back_to_categories", "bingwa_deals", "normal_deals",
                         "support", "cancel_purchase"}
       /\ GetPackage(choice) # None
      THEN [data EXCEPT !.package = GetPackage(choice)]
      ELSE data

\* choose_package: a button of a category or package menu
ChoosePackage(chat, user, upd) ==
    /\ NoHandlerRunning
    /\ Route(chat, user.id, upd) = "choose_package"
    /\ user_data' = [user_data EXCEPT ![user.id] = ChoosePackageData(@, upd.data)]
    /\ out' = ChoosePackageOut(chat, upd.data)
    /\ SetState(chat, user.id, ChoosePackageState(upd.data))
    /\ ScheduleJob(chat, user.id, ChoosePackageState(upd.data), FALSE)
    /\ response' = NoResponse
    /\ last' = Handled(chat, user.id, upd, "choose_package", FALSE)
    /\ UNCHANGED <<posts, request, references, users_file, now>>
    /\ UNCHANGED phoneVars
    /\ UNCHANGED environmentVars
    /\ UNCHANGED adminVars

\* get_phone_number without the validity test of the text
GetPhoneStateUnvalidated(data, text) ==
    IF data.package = None THEN END ELSE CONFIRMING_PURCHASE

\* get_phone_number: the state it returns
GetPhoneState(data, text) ==
    IF is_valid_phone_number(Strip(text)) = NoPhone THEN GETTING_PHONE
    ELSE IF data.package = None THEN END
    ELSE CONFIRMING_PURCHASE

\* get_phone_number: context.user_data after it
GetPhoneDataUnformatted(data, text) ==
    IF is_valid_phone_number(Strip(text)) # NoPhone /\ data.package # None
      THEN [data EXCEPT !.phone_number = Strip(text)]
      ELSE data

GetPhoneData(data, text) ==
    IF is_valid_phone_number(Strip(text)) # NoPhone /\ data.package # None
      THEN [data EXCEPT !.phone_number = is_valid_phone_number(Strip(text))]
      ELSE data

\* get_phone_number: the messages it sends; the purchase summary shows the
\* package and the formatted phone number
GetPhoneOut(chat, data, text) ==
    IF is_valid_phone_number(Strip(text)) = NoPhone
      THEN <<Message(chat, "invalid_phone", <<>>, <<>>)>>
    ELSE IF data.package = None
      THEN <<Message(chat, "no_package", <<>>, <<>>)>>
    ELSE <<Message(chat, "purchase_summary", ConfirmKeyboard,
                   <<data.package, is_valid_phone_number(Strip(text))>>)>>

\* get_phone_number: a text message in GETTING_PHONE
GetPhoneNumber(chat, user, upd) ==
    /\ NoHandlerRunning
    /\ Route(chat, user.id, upd) = "get_phone_number"
    /\ user_data' = [user_data EXCEPT ![user.id] = GetPhoneData(@, upd.text)]
    /\ out' = GetPhoneOut(chat, user_data[user.id], upd.text)
    /\ SetState(chat, user.id, GetPhoneState(user_data[user.id], upd.text))
    /\ ScheduleJob(chat, user.id, GetPhoneState(user_data[user.id], upd.text), FALSE)
    /\ response' = NoResponse
    /\ last' = Handled(chat, user.id, upd, "get_phone_number", FALSE)
    /\ UNCHANGED <<posts, request, references, users_file, now>>
    /\ UNCHANGED phoneVars
    /\ UNCHANGED environmentVars
    /\ UNCHANGED adminVars


(***************************************************************************)
(* Payment: initiate_stk_push                                              *)
(***************************************************************************)
GatewayReplies ==
    { GatewayReply(TRUE, 0, FALSE, FALSE, ""),
      GatewayReply(FALSE, 500, FALSE, FALSE, ""),
      GatewayReply(FALSE, 200, FALSE, FALSE, ""),
      GatewayReply(FALSE, 200, TRUE, FALSE, "FAILED"),
      GatewayReply(FALSE, 201, TRUE, TRUE, "QUEUED"),
      GatewayReply(FALSE, 200, TRUE, TRUE, "SUCCESS") }

\* the payload of the POST
Payload(phone_number, amount, reference) ==
    [amount |-> amount, phone_number |-> phone_number, channel_id |-> 2486,
     provider |-> "m-pesa", external_reference |-> reference,
     callback_url |-> "emmkash"]

\* initiate_stk_push without the test of the success flag of the body
StkPushOutcomeUnflagged(reply) ==
    IF reply.raises THEN "system_error"
    ELSE IF reply.status_code \notin {200, 201} THEN "error_processing_payment"
    ELSE IF ~reply.is_json THEN "system_error"
    ELSE IF reply.status = "SUCCESS" THEN "payment_successful"
    ELSE "payment_processing"

\* initiate_stk_push: the one message it sends for a reply
StkPushOutcome(reply) ==
    IF reply.raises THEN "system_error"
    ELSE IF reply.status_code \notin {200, 201} THEN "error_processing_payment"
    ELSE IF ~reply.is_json THEN "system_error"
    ELSE IF ~reply.success THEN "payment_failed"
    ELSE IF reply.status = "SUCCESS" THEN "payment_successful"
    ELSE "payment_processing"

(***************************************************************************)
(* handle_confirmation                                                     *)
(***************************************************************************)
\* selected_package.display_name raises AttributeError when
\* context.user_data.get('package') gave None
ConfirmationRaises(data, choice) == choice # "change_phone" /\ data.package = None

\* handle_confirmation returning CONFIRMING_PURCHASE after the payment
ConfirmationStateKept(data, choice) ==
    IF choice = "change_phone" THEN GETTING_PHONE ELSE CONFIRMING_PURCHASE

\* handle_confirmation: the state it returns; an exception raised by the
\* callback leaves the state of the conversation as it was
ConfirmationState(data, choice) ==
    IF choice = "change_phone" THEN GETTING_PHONE
    ELSE IF ConfirmationRaises(data, choice) THEN CONFIRMING_PURCHASE
    ELSE END

\* handle_confirmation: context.user_data after it
ConfirmationData(data, choice) ==
    IF choice = "change_phone" THEN data
    ELSE [data EXCEPT !.reference = generate_reference]

\* handle_confirmation: whether it reaches requests.post
ConfirmationPosts(data, choice) ==
    choice # "change_phone" /\ ~ConfirmationRaises(data, choice)

\* handle_confirmation: the payload initiate_stk_push posts
ConfirmationPayload(data) ==
    Payload(data.phone_number, data_packages[data.package].price, generate_reference)

\* handle_confirmation: the messages it sends
ConfirmationOut(chat, data, choice, reply) ==
    IF choice = "change_phone"
      THEN <<Message(chat, "enter_different_phone", <<>>, <<>>)>>
    ELSE IF ConfirmationRaises(data, choice) THEN <<>>
    ELSE <<Message(chat, "purchase_confirmed", <<>>,
                   <<data.package, data.phone_number, generate_reference>>),
           Message(chat, StkPushOutcome(reply), <<>>, <<>>)>>

\* handle_confirmation: confirm_purchase or change_phone in
\* CONFIRMING_PURCHASE
HandleConfirmation(chat, user, upd) ==
    /\ NoHandlerRunning
    /\ Route(chat, user.id, upd) = "handle_confirmation"
    /\ upd.data # "change_phone" => references < MaxReferences
    /\ user_data' = [user_data EXCEPT ![user.id] = ConfirmationData(@, upd.data)]
    /\ references' = IF upd.data = "change_phone" THEN references ELSE references + 1
    /\ posts' = IF ConfirmationPosts(user_data[user.id], upd.data)
                   THEN posts + 1 ELSE posts
    /\ request' = IF ConfirmationPosts(user_data[user.id], upd.data)
                     THEN ConfirmationPayload(user_data[user.id]) ELSE request
    /\ \E reply \in GatewayReplies :
           /\ out' = ConfirmationOut(chat, user_data[user.id], upd.data, reply)
           /\ response' = IF ConfirmationPosts(user_data[user.id], upd.data)
                             THEN reply ELSE NoResponse
    /\ SetState(chat, user.id, ConfirmationState(user_data[user.id], upd.data))
    /\ ScheduleJob(chat, user.id, ConfirmationState(user_data[user.id], upd.data),
                   ConfirmationRaises(user_data[user.id], upd.data))
    /\ last' = Handled(chat, user.id, upd, "handle_confirmation",
                       ConfirmationRaises(user_data[user.id], upd.data))
    /\ UNCHANGED <<users_file, now>>
    /\ UNCHANGED phoneVars
    /\ UNCHANGED environmentVars
    /\ UNCHANGED adminVars

\* cancel_purchase: the Cancel button
CancelPurchase(chat, user, upd) ==
    /\ NoHandlerRunning
    /\ Route(chat, user.id, upd) = "cancel_purchase"
    /\ out' = <<Message(chat, "cancelled", <<>>, <<>>)>>
    /\ SetState(chat, user.id, END)
    /\ ScheduleJob(chat, user.id, END, FALSE)
    /\ response' = NoResponse
    /\ last' = Handled(chat, user.id, upd, "cancel_purchase", FALSE)
    /\ UNCHANGED <<user_data, posts, request, references, users_file, now>>
    /\ UNCHANGED phoneVars
    /\ UNCHANGED environmentVars
    /\ UNCHANGED adminVars

\* conversation_timeout=180 with no handler for ConversationHandler.TIMEOUT:
\* the conversation ends; timeout_end is registered nowhere
Timeout(chat, uid) ==
    /\ ~in_flight
    /\ <<chat, uid>> \in timeout_jobs
    /\ conversations[<<chat, uid>>] # END
    /\ timeout_jobs' = timeout_jobs \ {<<chat, uid>>}
    /\ SetState(chat, uid, END)
    /\ out' = <<>>
    /\ response' = NoResponse
    /\ last' = [kind |-> "timeout", data |-> "", text |-> <<>>, chat |-> chat,
                user |-> uid, state |-> conversations[<<chat, uid>>],
                admin_state |-> admin_conversations[<<chat, uid>>],
                handler |-> None, raised |-> FALSE]
    /\ UNCHANGED <<user_data, posts, request, references, users_file, now>>
    /\ UNCHANGED phoneVars
    /\ UNCHANGED environmentVars
    /\ UNCHANGED adminVars

(***************************************************************************)
(* Handlers outside the conversations                                      *)
(***************************************************************************)
\* help_command, about_command and contact_support register the user and
\* send one message; the value contact_support returns is used by nobody
InfoHandlers == {"help_command", "about_command", "contact_support"}

InfoCommand(chat, user, upd) ==
    /\ NoHandlerRunning
    /\ Route(chat, user.id, upd) \in InfoHandlers
    /\ users_file' = register_user(load_user_data, user)
    /\ out' = <<Message(chat, Route(chat, user.id, upd), <<>>, <<>>)>>
    /\ response' = NoResponse
    /\ last' = Handled(chat, user.id, upd, Route(chat, user.id, upd), FALSE)
    /\ UNCHANGED <<conversations, user_data, posts, request, references, now>>
    /\ UNCHANGED phoneVars
    /\ UNCHANGED environmentVars
    /\ UNCHANGED timeout_jobs
    /\ UNCHANGED adminVars

\* an update no handler accepts is dropped
Unhandled(chat, user, upd) ==
    /\ NoHandlerRunning
    /\ Route(chat, user.id, upd) = None
    /\ out' = <<>>
    /\ response' = NoResponse
    /\ last' = Handled(chat, user.id, upd, None, FALSE)
    /\ UNCHANGED <<conversations, user_data, posts, request, references, users_file, now>>
    /\ UNCHANGED phoneVars
    /\ UNCHANGED environmentVars
    /\ UNCHANGED timeout_jobs
    /\ UNCHANGED adminVars


(***************************************************************************)
(* The admin conversation                                                  *)
(***************************************************************************)
\* ADMIN_USER_IDS = os.getenv('ADMIN_USER_IDS', '').split(','): u2 is the
\* administrator, u1 is not
ADMIN_USER_IDS == {"u2"}

\* a test that takes every user for an administrator
is_admin_anyone(user_id) == TRUE

\* is_admin
is_admin(user_id) == user_id \in ADMIN_USER_IDS

\* the keyboards of admin_command and of the end of admin_broadcast
AdminKeyboard == <<"admin_broadcast", "admin_stats", "admin_exit">>
AgainKeyboard == <<"admin_broadcast", "admin_exit">>

\* the updates are handled one at a time: while admin_broadcast is in its
\* loop no other update is handled
SetAdminState(chat, uid, state) ==
    admin_conversations' = [admin_conversations EXCEPT ![<<chat, uid>>] = state]

\* admin_command: /admin
AdminCommand(chat, user, upd) ==
    /\ NoHandlerRunning
    /\ Route(chat, user.id, upd) = "admin_command"
    /\ SetAdminState(chat, user.id, IF is_admin(user.id) THEN ADMIN_COMMAND ELSE END)
    /\ out' = IF is_admin(user.id)
                THEN <<Message(chat, "admin_panel", AdminKeyboard, <<>>)>>
                ELSE <<Message(chat, "no_permission", <<>>, <<>>)>>
    /\ response' = NoResponse
    /\ last' = Handled(chat, user.id, upd, "admin_command", FALSE)
    /\ UNCHANGED <<conversations, user_data, posts, request, references, users_file, now>>
    /\ UNCHANGED broadcastVars
    /\ UNCHANGED phoneVars
    /\ UNCHANGED environmentVars
    /\ UNCHANGED timeout_jobs

\* admin_handle_choice: the state it returns
AdminChoiceStateClosing(choice) ==
    IF choice = "admin_broadcast" THEN ADMIN_BROADCAST_MESSAGE ELSE END

AdminChoiceState(choice) ==
    IF choice = "admin_exit" THEN END
    ELSE IF choice = "admin_broadcast" THEN ADMIN_BROADCAST_MESSAGE
    ELSE ADMIN_COMMAND

\* admin_handle_choice: the messages it sends
AdminChoiceOut(chat, choice) ==
    IF choice = "admin_exit" THEN <<Message(chat, "admin_closed", <<>>, <<>>)>>
    ELSE IF choice = "admin_broadcast"
      THEN <<Message(chat, "enter_broadcast", <<>>, <<>>)>>
    ELSE IF choice = "admin_stats"
      THEN <<Message(chat, "statistics", <<>>, <<Len(load_user_data)>>)>>
    ELSE <<>>

\* admin_handle_choice: a button whose callback data starts with admin_
AdminHandleChoice(chat, user, upd) ==
    /\ NoHandlerRunning
    /\ Route(chat, user.id, upd) = "admin_handle_choice"
    /\ SetAdminState(chat, user.id, AdminChoiceState(upd.data))
    /\ out' = AdminChoiceOut(chat, upd.data)
    /\ response' = NoResponse
    /\ last' = Handled(chat, user.id, upd, "admin_handle_choice", FALSE)
    /\ UNCHANGED <<conversations, user_data, posts, request, references, users_file, now>>
    /\ UNCHANGED broadcastVars
    /\ UNCHANGED phoneVars
    /\ UNCHANGED environmentVars
    /\ UNCHANGED timeout_jobs

\* str.lower(), for the letters of the text it is compared with
LowerChar(c) ==
    CASE c = "C" -> "c" [] c = "A" -> "a" [] c = "N" -> "n" [] c = "E" -> "e"
      [] c = "L" -> "l" [] OTHER -> c

Lower(text) == [i \in 1..Len(text) |-> LowerChar(text[i])]

\* message_text.lower() == '/cancel'
IsCancelText(text) == Lower(text) = <<"/", "c", "a", "n", "c", "e", "l">>

\* admin_broadcast returns before its loop: on /cancel, and when the
\* directory has no users
BroadcastReturnsEarly(text, loaded) == IsCancelText(text) \/ loaded = <<>>

\* admin_broadcast up to its loop: a text message in ADMIN_BROADCAST_MESSAGE.
\* The state of the conversation is set when the callback returns.
AdminBroadcast(chat, user, upd) ==
    /\ NoHandlerRunning
    /\ Route(chat, user.id, upd) = "admin_broadcast"
    /\ IF BroadcastReturnsEarly(upd.text, load_user_data)
         THEN /\ SetAdminState(chat, user.id, END)
              /\ out' = IF IsCancelText(upd.text)
                          THEN <<Message(chat, "broadcast_cancelled", <<>>, <<>>)>>
                          ELSE <<Message(chat, "no_users", <<>>, <<>>)>>
              /\ UNCHANGED broadcastVars
         ELSE /\ sending' = TRUE
              /\ broadcast_users' = load_user_data
              /\ pending' = load_user_data
              /\ attempted' = <<>>
              /\ undelivered' = 0
              /\ sent_count' = 0
              /\ failed_count' = 0
              /\ out' = <<Message(chat, "sending_broadcast", <<>>, <<>>)>>
              /\ UNCHANGED admin_conversations
    /\ response' = NoResponse
    /\ last' = Handled(chat, user.id, upd, "admin_broadcast", FALSE)
    /\ UNCHANGED <<conversations, user_data, posts, request, references, users_file, now>>
    /\ UNCHANGED phoneVars
    /\ UNCHANGED environmentVars
    /\ UNCHANGED timeout_jobs

\* the progress message is edited when sent_count is a multiple of this
ProgressEvery == 10

\* one turn of the loop: sent_count after it
SentAfter(sent, delivered) == IF delivered THEN sent + 1 ELSE sent

\* one turn of the loop: failed_count after it.  The except clause counts
\* a failure when send_message raised, and also when the edit of the
\* progress message raised after sent_count was incremented.
FailedAfter(sent, failed, delivered, edited) ==
    IF ~delivered THEN failed + 1
    ELSE IF (sent + 1) % ProgressEvery = 0 /\ ~edited THEN failed + 1
    ELSE failed

\* a loop inside the try statement: a send_message that raises ends it
PendingAfterAbort(left, delivered, edited) == IF delivered THEN Tail(left) ELSE <<>>

\* one turn of the loop: the users left to visit.  The try statement is
\* inside the loop, so an exception of one turn does not end the loop.
PendingAfter(left, delivered, edited) == Tail(left)

\* one turn of the loop of admin_broadcast: send_message to the next user
\* succeeds or raises, and so does the edit of the progress message
Deliver ==
    /\ sending
    /\ pending # <<>>
    /\ \E delivered \in BOOLEAN, edited \in BOOLEAN :
           /\ attempted' = Append(attempted, Head(pending).id)
           /\ undelivered' = IF delivered THEN undelivered ELSE undelivered + 1
           /\ sent_count' = SentAfter(sent_count, delivered)
           /\ failed_count' = FailedAfter(sent_count, failed_count, delivered, edited)
           /\ pending' = PendingAfter(pending, delivered, edited)
    /\ UNCHANGED <<sending, broadcast_users, admin_conversations>>
    /\ UNCHANGED botVars
    /\ UNCHANGED phoneVars
    /\ UNCHANGED environmentVars
    /\ UNCHANGED timeout_jobs

\* admin_broadcast after its loop: the tally, the next keyboard, and the
\* state it returns
FinishBroadcast ==
    /\ sending
    /\ pending = <<>>
    /\ sending' = FALSE
    /\ out' = <<Message(last.chat, "broadcast_complete", <<>>,
                        <<sent_count, failed_count>>),
                Message(last.chat, "broadcast_next", AgainKeyboard, <<>>)>>
    /\ SetAdminState(last.chat, last.user, ADMIN_COMMAND)
    /\ UNCHANGED <<broadcast_users, pending, attempted, undelivered, sent_count,
                   failed_count>>
    /\ UNCHANGED <<conversations, user_data, posts, request, references, users_file,
                   now, last, response>>
    /\ UNCHANGED phoneVars
    /\ UNCHANGED environmentVars
    /\ UNCHANGED timeout_jobs

\* admin_cancel: the state it returns
AdminCancelStateKept == ADMIN_BROADCAST_MESSAGE

AdminCancelState == END

\* admin_cancel: /cancel
AdminCancel(chat, user, upd) ==
    /\ NoHandlerRunning
    /\ Route(chat, user.id, upd) = "admin_cancel"
    /\ SetAdminState(chat, user.id, AdminCancelState)
    /\ out' = <<Message(chat, "admin_cancelled", <<>>, <<>>)>>
    /\ response' = NoResponse
    /\ last' = Handled(chat, user.id, upd, "admin_cancel", FALSE)
    /\ UNCHANGED <<conversations, user_data, posts, request, references, users_file, now>>
    /\ UNCHANGED broadcastVars
    /\ UNCHANGED phoneVars
    /\ UNCHANGED environmentVars
    /\ UNCHANGED timeout_jobs


(***************************************************************************)
(* The bot: initial state and the updates it is sent                       *)
(***************************************************************************)
\* the process has started: no conversation, no session, nothing sent
InitConversations ==
    /\ conversations = [k \in ConversationKeys |-> END]
    /\ user_data = [u \in Users |-> EmptyUserData]
    /\ posts = 0
    /\ request = Payload(NoPhone, 0, NoReference)
    /\ response = NoResponse
    /\ references = 0
    /\ now = 0
    /\ out = <<>>
    /\ timeout_jobs = {}
    /\ storage_fault = "none"
    /\ in_flight = FALSE
    /\ last = [kind |-> "none", data |-> "", text |-> <<>>, chat |-> "c1",
               user |-> "u1", state |-> END, admin_state |-> END, handler |-> None,
               raised |-> FALSE]

InitBot ==
    /\ InitConversations
    /\ users_file = <<>>

InitAdminIdle ==
    /\ admin_conversations = [k \in ConversationKeys |-> END]
    /\ sending = FALSE
    /\ broadcast_users = <<>>
    /\ pending = <<>>
    /\ attempted = <<>>
    /\ undelivered = 0
    /\ sent_count = 0
    /\ failed_count = 0

InitPhoneIdle ==
    /\ phone_base = <<>>
    /\ phone_input = <<>>
    /\ phone_result = NoPhone
    /\ phone_again = NoPhone
    /\ phone_stage = "input"

Init == InitBot /\ InitPhoneIdle /\ InitAdminIdle

\* the user of both of u1's conversations: the private chat and the group
PurchaseKeys == {<<"c1", "u1">>, <<"c2", "u1">>}

\* "0712345678", " 254-112 345 678" and "abc123"
NationalText == <<"0", "7", "1", "2", "3", "4", "5", "6", "7", "8">>
SeparatedText ==
    <<" ", "2", "5", "4", "-", "1", "1", "2", " ", "3", "4", "5", " ", "6", "7", "8">>
InvalidText == <<"a", "b", "c", "1", "2", "3">>

\* The updates sent in the private chat c1, and the fewer sent in the group
\* chat c2.
Commands(chat) ==
    IF chat = "c1" THEN {"start", "bundles", "restart", "help"} ELSE {"start"}

Buttons(chat) ==
    IF chat = "c1"
      THEN {"bingwa_deals", "normal_deals", "cancel_purchase", "confirm_purchase",
            "change_phone", "data_1", "data_12"}
      ELSE {"data_9"}

Texts(chat) ==
    IF chat = "c1" THEN {NationalText, InvalidText}
    ELSE {SeparatedText}

CommandUpdates(chat) == {Command(c) : c \in Commands(chat)}
ButtonUpdates(chat) == {Callback(b) : b \in Buttons(chat)}
TextUpdates(chat) == {Text(t) : t \in Texts(chat)}
Updates(chat) == CommandUpdates(chat) \cup ButtonUpdates(chat) \cup TextUpdates(chat)

\* Every update is offered to the handlers; an action whose handler takes
\* one kind of update only is tried with the updates of that kind.
HandleUpdates(keys) ==
    \E key \in keys :
        LET chat == key[1]
            user == EffectiveUser(key[2], key[2])
        IN  \/ \E upd \in CommandUpdates(chat) : Start(chat, user, upd)
            \/ \E upd \in CommandUpdates(chat) : ShowBundles(chat, user, upd)
            \/ \E upd \in CommandUpdates(chat) : RestartCommand(chat, user, upd)
            \/ \E upd \in ButtonUpdates(chat) : ChoosePackage(chat, user, upd)
            \/ \E upd \in TextUpdates(chat) : GetPhoneNumber(chat, user, upd)
            \/ \E upd \in ButtonUpdates(chat) : HandleConfirmation(chat, user, upd)
            \/ \E upd \in ButtonUpdates(chat) : CancelPurchase(chat, user, upd)
            \/ \E upd \in CommandUpdates(chat) : InfoCommand(chat, user, upd)
            \/ \E upd \in Updates(chat) : Unhandled(chat, user, upd)
            \/ Timeout(chat, user.id)

Next == HandleUpdates(PurchaseKeys)

Spec == Init /\ [][Next]_vars

(***************************************************************************)
(* The phone normalizer on its own: an input is a base string with         *)
(* separators inserted anywhere, normalized, and the result normalized     *)
(* again.                                                                  *)
(***************************************************************************)
PhonePrefixes ==
    { <<>>, <<"0">>, Short254, Plus254, <<"+">>, <<"0", "0">>,
      <<"2", "5", "5">>, Plus254 \o <<"0">> }

PhoneLeads == {"7", "1", "2"}

PhoneTails ==
    { <<"1", "2", "3", "4", "5", "6", "7", "8">>,
      <<"0", "0", "0", "0", "0", "0", "0", "9">>,
      <<"1", "2", "3", "4", "5", "6", "7">>,
      <<"1", "2", "3", "4", "5", "6", "7", "8", "9">>,
      <<"1", "2", "3", "a", "5", "6", "7", "8">> }

PhoneBases ==
    {p \o <<l>> \o t : p \in PhonePrefixes, l \in PhoneLeads, t \in PhoneTails}
        \cup { <<>>, <<"a", "b", "c", "1", "2", "3">> }

InsertedSeparators == {" ", "-", "(", ")", "\t"}

InitPhone ==
    /\ InitBot
    /\ InitAdminIdle
    /\ phone_base \in PhoneBases
    /\ phone_input = phone_base
    /\ phone_result = NoPhone
    /\ phone_again = NoPhone
    /\ phone_stage = "input"

InsertSeparator ==
    /\ phone_stage = "input"
    /\ Len(phone_input) - Len(phone_base) < MaxSeparators
    /\ \E i \in 0..Len(phone_input), c \in InsertedSeparators :
           phone_input' = SubSeq(phone_input, 1, i) \o <<c>>
                              \o SubSeq(phone_input, i + 1, Len(phone_input))
    /\ UNCHANGED <<phone_base, phone_result, phone_again, phone_stage>>
    /\ UNCHANGED botVars
    /\ UNCHANGED adminVars
    /\ UNCHANGED environmentVars
    /\ UNCHANGED timeout_jobs

Normalize ==
    /\ phone_stage = "input"
    /\ phone_result' = is_valid_phone_number(phone_input)
    /\ phone_stage' = "normalized"
    /\ UNCHANGED <<phone_base, phone_input, phone_again>>
    /\ UNCHANGED botVars
    /\ UNCHANGED adminVars
    /\ UNCHANGED environmentVars
    /\ UNCHANGED timeout_jobs

Renormalize ==
    /\ phone_stage = "normalized"
    /\ phone_result # NoPhone
    /\ phone_again' = is_valid_phone_number(phone_result)
    /\ phone_stage' = "renormalized"
    /\ UNCHANGED <<phone_base, phone_input, phone_result>>
    /\ UNCHANGED botVars
    /\ UNCHANGED adminVars
    /\ UNCHANGED environmentVars
    /\ UNCHANGED timeout_jobs

NextPhone == InsertSeparator \/ Normalize \/ Renormalize

SpecPhone == InitPhone /\ [][NextPhone]_vars


(***************************************************************************)
(* The admin conversation in the group chat c2, with a directory of up to  *)
(* MaxUsers users: the administrator u2 and the user u1 send the updates   *)
(* of the admin panel.                                                     *)
(***************************************************************************)
DirectoryIds ==
    <<"u1", "u2", "u3", "u4", "u5", "u6", "u7", "u8", "u9", "u10", "u11", "u12">>

\* the record register_user appends for a user
Profile(id) ==
    [id |-> id, username |-> id, first_name |-> id, last_name |-> id,
     joined |-> 0, last_active |-> 0]

\* the directory after the first n users registered
Directory(n) == [i \in 1..n |-> Profile(DirectoryIds[i])]

InitAdmin ==
    /\ InitConversations
    /\ InitPhoneIdle
    /\ InitAdminIdle
    /\ \E n \in 0..MaxUsers : users_file = Directory(n)

AdminKeys == {<<"c2", "u2">>, <<"c2", "u1">>}

BroadcastText == <<"h", "i">>

AdminCommands == {"admin", "cancel"}
AdminButtons == {"admin_broadcast", "admin_stats", "admin_exit", "admin_users"}

AdminUpdates ==
    {Command(c) : c \in AdminCommands} \cup {Callback(b) : b \in AdminButtons}
        \cup {Text(BroadcastText)}

NextAdmin ==
    \/ \E key \in AdminKeys :
           LET chat == key[1]
               user == EffectiveUser(key[2], key[2])
           IN  \/ \E upd \in AdminUpdates : AdminCommand(chat, user, upd)
               \/ \E upd \in AdminUpdates : AdminHandleChoice(chat, user, upd)
               \/ \E upd \in AdminUpdates : AdminBroadcast(chat, user, upd)
               \/ \E upd \in AdminUpdates : AdminCancel(chat, user, upd)
               \/ \E upd \in AdminUpdates : Unhandled(chat, user, upd)
    \/ Deliver
    \/ FinishBroadcast

SpecAdmin == InitAdmin /\ [][NextAdmin]_vars


(***************************************************************************)
(* The user directory on its own: users register, again and under new      *)
(* names, while the clock advances.                                        *)
(***************************************************************************)
UserNames == {"ann", "bob"}

\* datetime.datetime.now() has advanced
Tick ==
    /\ now < MaxTime
    /\ now' = now + 1
    /\ last' = [last EXCEPT !.kind = "tick"]
    /\ UNCHANGED <<conversations, user_data, posts, request, references, users_file,
                   out, response>>
    /\ UNCHANGED phoneVars
    /\ UNCHANGED environmentVars
    /\ UNCHANGED timeout_jobs
    /\ UNCHANGED adminVars

\* register_user(user); last records the user and the name registered
RegisterUser(user) ==
    /\ users_file' = register_user(load_user_data, user)
    /\ last' = [last EXCEPT !.kind = "register", !.user = user.id,
                            !.data = user.username, !.handler = "register_user"]
    /\ UNCHANGED <<conversations, user_data, posts, request, references, now, out,
                   response>>
    /\ UNCHANGED phoneVars
    /\ UNCHANGED environmentVars
    /\ UNCHANGED timeout_jobs
    /\ UNCHANGED adminVars

NextDirectory ==
    \/ Tick
    \/ \E id \in Users, name \in UserNames : RegisterUser(EffectiveUser(id, name))

SpecDirectory == Init /\ [][NextDirectory]_vars


(***************************************************************************)
(* The administrator u2 in the group chat c2, using the purchase flow and  *)
(* the admin panel in the same chat.                                       *)
(***************************************************************************)
RegisteredUsers == 2

InitPanel ==
    /\ InitConversations
    /\ InitPhoneIdle
    /\ InitAdminIdle
    /\ users_file = Directory(RegisteredUsers)

PanelKey == <<"c2", "u2">>

PanelUpdates ==
    {Command(c) : c \in {"start", "restart", "admin", "cancel"}}
        \cup {Callback(b) : b \in {"data_1", "admin_broadcast", "admin_stats",
                                    "admin_exit"}}
        \cup {Text(t) : t \in {NationalText, BroadcastText}}

NextPanel ==
    \/ LET chat == PanelKey[1]
           user == EffectiveUser(PanelKey[2], PanelKey[2])
       IN  \/ \E upd \in PanelUpdates : Start(chat, user, upd)
           \/ \E upd \in PanelUpdates : RestartCommand(chat, user, upd)
           \/ \E upd \in PanelUpdates : ChoosePackage(chat, user, upd)
           \/ \E upd \in PanelUpdates : GetPhoneNumber(chat, user, upd)
           \/ \E upd \in PanelUpdates : AdminCommand(chat, user, upd)
           \/ \E upd \in PanelUpdates : AdminHandleChoice(chat, user, upd)
           \/ \E upd \in PanelUpdates : AdminBroadcast(chat, user, upd)
           \/ \E upd \in PanelUpdates : AdminCancel(chat, user, upd)
           \/ \E upd \in PanelUpdates : Unhandled(chat, user, upd)
    \/ Deliver
    \/ FinishBroadcast

SpecPanel == InitPanel /\ [][NextPanel]_vars


(***************************************************************************)
(* The user directory with a file that can fail: users register while     *)
(* reading USER_DATA_FILE or writing it may raise.                         *)
(***************************************************************************)
\* load_user_data: open or json.load raised, the exception is logged and
\* {"users": []} returned
load_user_data_outcome(loaded) ==
    IF loaded = "read" THEN users_file ELSE <<>>

\* save_user_data, the "users" list in the file afterwards: the list written;
\* or, open(USER_DATA_FILE, 'w') having raised, the list as it was; or, open
\* having truncated the file and json.dump having raised, a file that no
\* longer parses, which every later load_user_data reads as {"users": []}
save_user_data(users, saved) ==
    CASE saved = "written" -> users
      [] saved = "open_failed" -> users_file
      [] saved = "dump_failed" -> <<>>

\* register_user(user) with the outcomes of its load and of its save
RegisterUserStoring(user, loaded, saved) ==
    /\ users_file' = save_user_data(register_user(load_user_data_outcome(loaded), user),
                                    saved)
    /\ storage_fault' = IF loaded # "read" THEN loaded
                        ELSE IF saved # "written" THEN saved ELSE "none"
    /\ last' = [last EXCEPT !.kind = "register", !.user = user.id,
                            !.data = user.username, !.handler = "register_user"]
    /\ UNCHANGED <<conversations, user_data, posts, request, references, now, out,
                   response>>
    /\ UNCHANGED phoneVars
    /\ UNCHANGED adminVars
    /\ UNCHANGED <<in_flight, timeout_jobs>>

NextStorage ==
    \/ Tick
    \/ \E id \in Users, name \in UserNames :
           \E loaded \in {"read", "load_failed"} :
               \E saved \in {"written", "open_failed", "dump_failed"} :
                   RegisterUserStoring(EffectiveUser(id, name), loaded, saved)

SpecStorage == Init /\ [][NextStorage]_vars


(***************************************************************************)
(* The payment gateway takes its time: two users, each in a chat of their  *)
(* own, while handle_confirmation waits in requests.post for the reply.    *)
(***************************************************************************)
GatewayKeys == {<<"c1", "u1">>, <<"c2", "u2">>}

\* handle_confirmation with confirm_purchase, from the update to the call of
\* requests.post in initiate_stk_push; handle_update has removed the timeout
\* job of the key
PostCharge(chat, user, upd) ==
    /\ NoHandlerRunning
    /\ Route(chat, user.id, upd) = "handle_confirmation"
    /\ ConfirmationPosts(user_data[user.id], upd.data)
    /\ references < MaxReferences
    /\ user_data' = [user_data EXCEPT ![user.id] = ConfirmationData(@, upd.data)]
    /\ references' = references + 1
    /\ posts' = posts + 1
    /\ request' = ConfirmationPayload(user_data[user.id])
    /\ out' = SubSeq(ConfirmationOut(chat, user_data[user.id], upd.data, NoResponse),
                     1, 1)
    /\ response' = NoResponse
    /\ in_flight' = TRUE
    /\ timeout_jobs' = timeout_jobs \ {<<chat, user.id>>}
    /\ last' = Handled(chat, user.id, upd, "handle_confirmation", FALSE)
    /\ UNCHANGED <<conversations, users_file, now, storage_fault>>
    /\ UNCHANGED phoneVars
    /\ UNCHANGED adminVars

\* requests.post returns or raises; initiate_stk_push reports the outcome and
\* handle_confirmation returns ConversationHandler.END
ReceiveReply ==
    /\ in_flight
    /\ \E reply \in GatewayReplies :
           /\ response' = reply
           /\ out' = Append(out, Message(last.chat, StkPushOutcome(reply), <<>>, <<>>))
    /\ in_flight' = FALSE
    /\ SetState(last.chat, last.user, END)
    /\ ScheduleJob(last.chat, last.user, END, FALSE)
    /\ UNCHANGED <<user_data, posts, request, references, users_file, now, last,
                   storage_fault>>
    /\ UNCHANGED phoneVars
    /\ UNCHANGED adminVars

\* an update of the chat is handled for the user
HandleUpdate(chat, user) ==
    \/ \E upd \in CommandUpdates(chat) : Start(chat, user, upd)
    \/ \E upd \in ButtonUpdates(chat) : ChoosePackage(chat, user, upd)
    \/ \E upd \in TextUpdates(chat) : GetPhoneNumber(chat, user, upd)
    \/ \E upd \in ButtonUpdates(chat) : PostCharge(chat, user, upd)

NextGateway ==
    \/ \E key \in GatewayKeys : HandleUpdate(key[1], EffectiveUser(key[2], key[2]))
    \/ ReceiveReply

SpecGateway == Init /\ [][NextGateway]_vars


(***************************************************************************)
(* One purchase conversation: the user u1 in the private chat c1 alone.    *)
(***************************************************************************)
ConversationKey == <<"c1", "u1">>

NextConversation == HandleUpdates({ConversationKey})

SpecConversation == Init /\ [][NextConversation]_vars


(***************************************************************************)
(* The purchase flow with the timeout jobs run fairly: a timeout job that  *)
(* stays scheduled is run in the end. Nothing obliges a user to send       *)
(* another update.                                                         *)
(***************************************************************************)
SpecTimeout ==
    /\ Init
    /\ [][Next]_vars
    /\ \A key \in PurchaseKeys : WF_vars(Timeout(key[1], key[2]))


(***************************************************************************)
(* Properties                                                              *)
(***************************************************************************)
\* the conversation of the update handled last, and its user
LastKey == <<last.chat, last.user>>

\* the session is cleared: no selected offer, phone number or reference
SessionCleared(uid) == user_data[uid] = EmptyUserData

ActiveStates == {CHOOSING_PACKAGE, GETTING_PHONE, CONFIRMING_PURCHASE}

\* C1: whenever confirm_purchase is handled in CONFIRMING_PURCHASE, a charge
\* request was posted that carries the reference generated at this
\* confirmation, the price of the session's selected offer and the session's
\* normalized phone number, and the conversation is Idle afterwards.
ConfirmChargesSession ==
    ( /\ last.kind = "callback"
      /\ last.data = "confirm_purchase"
      /\ last.state = CONFIRMING_PURCHASE )
    => /\ posts > 0
       /\ request.external_reference = user_data[last.user].reference
       /\ user_data[last.user].package \in DOMAIN data_packages
       /\ request.amount = data_packages[user_data[last.user].package].price
       /\ user_data[last.user].phone_number # NoPhone
       /\ request.phone_number = user_data[last.user].phone_number
       /\ conversations[LastKey] = END

\* C2: a step posts a charge request exactly when it handles confirm_purchase
\* in CONFIRMING_PURCHASE, and then it posts one; so the number of requests
\* equals the number of such events.
ChargePerConfirmation ==
    [][ posts' = posts +
            ( IF /\ last'.kind = "callback"
                 /\ last'.data = "confirm_purchase"
                 /\ conversations[<<last'.chat, last'.user>>] = CONFIRMING_PURCHASE
                THEN 1 ELSE 0 ) ]_vars

\* C3: handling cancel_purchase in CHOOSING_PACKAGE, GETTING_PHONE or
\* CONFIRMING_PURCHASE puts the conversation in Idle and posts no charge
\* request.
CancelEndsConversation ==
    [][ ( /\ last'.kind = "callback"
          /\ last'.data = "cancel_purchase"
          /\ conversations[<<last'.chat, last'.user>>] \in ActiveStates )
        => /\ conversations'[<<last'.chat, last'.user>>] = END
           /\ posts' = posts
           /\ request' = request ]_vars

\* C3, witness: a purchase that had reached the confirmation step was
\* cancelled, and nothing was charged
CancelledAtConfirmation ==
    /\ last.kind = "callback"
    /\ last.data = "cancel_purchase"
    /\ last.handler = "cancel_purchase"
    /\ last.state = CONFIRMING_PURCHASE
    /\ conversations[LastKey] = END
    /\ posts = 0

\* C4: after cancel_purchase or /restart is handled in a conversation state,
\* the session holds no selected offer, phone number or reference.
CancelOrRestartClearsSession ==
    ( /\ last.state \in ActiveStates
      /\ \/ last.kind = "callback" /\ last.data = "cancel_purchase"
         \/ last.kind = "command" /\ last.data = "restart" )
    => SessionCleared(last.user)

\* C5: handling change_phone in CONFIRMING_PURCHASE moves the conversation to
\* GETTING_PHONE, keeps the selected offer, clears the phone number and posts
\* no charge request.
ChangePhoneClearsPhone ==
    [][ ( /\ last'.kind = "callback"
          /\ last'.data = "change_phone"
          /\ conversations[<<last'.chat, last'.user>>] = CONFIRMING_PURCHASE )
        => /\ conversations'[<<last'.chat, last'.user>>] = GETTING_PHONE
           /\ user_data'[last'.user].package = user_data[last'.user].package
           /\ user_data'[last'.user].phone_number = NoPhone
           /\ posts' = posts ]_vars

\* C6: a text that fails normalization, handled in GETTING_PHONE, leaves the
\* state GETTING_PHONE and the session as they were and posts no charge
\* request; as this holds of every such step, it holds of any number of them
\* in a row.
InvalidPhoneChangesNothing ==
    [][ ( /\ last'.kind = "text"
          /\ conversations[<<last'.chat, last'.user>>] = GETTING_PHONE
          /\ is_valid_phone_number(last'.text) = NoPhone )
        => /\ conversations'[<<last'.chat, last'.user>>] = GETTING_PHONE
           /\ user_data' = user_data
           /\ posts' = posts
           /\ request' = request ]_vars

\* C6, witness: "abc123" was rejected while the session held an offer and the
\* phone number of an earlier summary
InvalidPhoneRejected ==
    /\ last.kind = "text"
    /\ last.text = InvalidText
    /\ last.handler = "get_phone_number"
    /\ last.state = GETTING_PHONE
    /\ conversations[LastKey] = GETTING_PHONE
    /\ user_data[last.user].package # None
    /\ user_data[last.user].phone_number # NoPhone

\* a subscriber number: a 7 or a 1 followed by eight digits
IsSubscriberNumber(n) ==
    /\ Len(n) = 9
    /\ n[1] \in {"7", "1"}
    /\ \A i \in 2..9 : n[i] \in Digits

\* the accepted shapes 0N, 254N and +254N: the prefixes that may precede N
ShapePrefixes == { <<"0">>, <<"2", "5", "4">>, <<"+", "2", "5", "4">> }

\* s is p followed by a subscriber number
HasShape(s, p) == StartsWith(s, p) /\ IsSubscriberNumber(DropChars(s, Len(p)))

\* C7: for a subscriber number N, the inputs 0N, 254N and +254N, with or
\* without separators inserted, all normalize to 254N; and normalizing a
\* string the normalizer returned gives that string back.
VariantsNormalizeAlike ==
    /\ phone_stage # "input" =>
           \A p \in ShapePrefixes :
               HasShape(phone_base, p) =>
                   phone_result = <<"2", "5", "4">> \o DropChars(phone_base, Len(p))
    /\ phone_stage = "renormalized" => phone_again = phone_result

\* C7, witness: +254N with a separator inserted was normalized to 254N, and
\* 254N was normalized again
SeparatedInternationalNormalized ==
    /\ phone_stage = "renormalized"
    /\ HasShape(phone_base, <<"+", "2", "5", "4">>)
    /\ Len(phone_input) > Len(phone_base)
    /\ phone_result = DropChars(phone_base, 1)
    /\ phone_again = phone_result

\* C8: the normalizer accepts an input only if, with its separators
\* stripped, it is 0N, 254N or +254N for a subscriber number N; every other
\* input gives the invalid-number signal.
OnlyClosedShapesAccepted ==
    (phone_stage # "input" /\ phone_result # NoPhone)
        => \E p \in ShapePrefixes : HasShape(phone_base, p)

\* the offers of the two categories, as the catalog groups them
BingwaCategory ==
    {"data_1", "data_2", "data_3", "data_4", "data_5", "data_6", "data_7", "data_8"}
NormalCategory == {"data_9", "data_10", "data_11"}

\* the offer buttons of an inline keyboard
OfferButtons(keyboard) ==
    {keyboard[i] : i \in {j \in 1..Len(keyboard) : keyboard[j] \in DOMAIN data_packages}}

\* how many buttons of a keyboard carry the callback data k
ButtonCount(keyboard, k) == Cardinality({i \in 1..Len(keyboard) : keyboard[i] = k})

\* C9: the two filters put every catalog offer in exactly one category, the
\* two categories together are the catalog, and the menu sent for
\* bingwa_deals (normal_deals) lists exactly the offers of that category.
CategoriesPartitionCatalog ==
    /\ \A k \in DOMAIN data_packages :
           ButtonCount(bingwa_packages, k) + ButtonCount(normal_packages, k) = 1
    /\ OfferButtons(bingwa_packages) \cup OfferButtons(normal_packages)
           = DOMAIN data_packages
    /\ (last.handler = "choose_package" /\ last.data = "bingwa_deals") =>
           /\ Len(out) = 1
           /\ OfferButtons(out[1].keyboard) = BingwaCategory
           /\ \A k \in BingwaCategory : ButtonCount(out[1].keyboard, k) = 1
    /\ (last.handler = "choose_package" /\ last.data = "normal_deals") =>
           /\ Len(out) = 1
           /\ OfferButtons(out[1].keyboard) = NormalCategory
           /\ \A k \in NormalCategory : ButtonCount(out[1].keyboard, k) = 1

\* C9, witness: the Bingwa menu was sent, with data_8 and without data_9
BingwaMenuShown ==
    /\ last.handler = "choose_package"
    /\ last.data = "bingwa_deals"
    /\ last.state = CHOOSING_PACKAGE
    /\ Len(out) = 1
    /\ "data_8" \in OfferButtons(out[1].keyboard)
    /\ "data_9" \notin OfferButtons(out[1].keyboard)

\* the callback data of offer buttons, of the catalog or not
OfferSelections == {"data_1", "data_9", "data_12"}

\* C10: an offer selection handled in CHOOSING_PACKAGE whose id is no catalog
\* offer leaves the state and the session as they were; one whose id is a
\* catalog offer stores that offer as the selected offer, changes nothing
\* else of the session, and moves to GETTING_PHONE.
SelectionStoresOffer ==
    [][ ( /\ last'.kind = "callback"
          /\ last'.data \in OfferSelections
          /\ conversations[<<last'.chat, last'.user>>] = CHOOSING_PACKAGE )
        => IF last'.data \in DOMAIN data_packages
             THEN /\ conversations'[<<last'.chat, last'.user>>] = GETTING_PHONE
                  /\ user_data' = [user_data EXCEPT
                                       ![last'.user].package = last'.data]
             ELSE /\ conversations'[<<last'.chat, last'.user>>] = CHOOSING_PACKAGE
                  /\ user_data' = user_data ]_vars

\* C10, witness: data_12 was pressed in CHOOSING_PACKAGE while the session
\* held an offer, and the state and the offer stayed
UnknownSelectionRejected ==
    /\ last.kind = "callback"
    /\ last.data = "data_12"
    /\ last.handler = "choose_package"
    /\ last.state = CHOOSING_PACKAGE
    /\ conversations[LastKey] = CHOOSING_PACKAGE
    /\ user_data[last.user].package = "data_1"

\* the commands that are entry points of the purchase conversation
EntryCommands == {"start", "bundles", "restart"}

\* the update handled by this step is one of the entry commands
IsEntryCommand(l) == l.kind = "command" /\ l.data \in EntryCommands

\* C11: a step that handles an update of an Idle conversation moves it to
\* CHOOSING_PACKAGE when the update is /start, /bundles or /restart; for
\* every other update (a button press, a text, another command) the
\* conversation stays Idle, the session is unchanged and nothing is posted
\* to the gateway.
OnlyEntryCommandsLeaveIdle ==
    [][ ( /\ last'.kind \in {"command", "callback", "text"}
          /\ conversations[<<last'.chat, last'.user>>] = END )
        => IF IsEntryCommand(last')
             THEN conversations'[<<last'.chat, last'.user>>] = CHOOSING_PACKAGE
             ELSE /\ conversations'[<<last'.chat, last'.user>>] = END
                  /\ user_data' = user_data
                  /\ posts' = posts
                  /\ request' = request ]_vars

\* C11, witness: confirm_purchase was pressed on the summary of a purchase
\* that had been cancelled; the conversation is Idle, the session still has
\* the offer and the phone number, and nothing was charged
StaleConfirmIgnored ==
    /\ last.kind = "callback"
    /\ last.data = "confirm_purchase"
    /\ last.state = END
    /\ last.handler = None
    /\ conversations[LastKey] = END
    /\ user_data[last.user].package # None
    /\ user_data[last.user].phone_number # NoPhone
    /\ posts = 0

\* C12: after /start, /bundles or /restart was handled in an Idle
\* conversation, the user has a record in the directory, the session holds
\* no offer, phone number or reference, and the conversation is in
\* CHOOSING_PACKAGE.
EntryCommandClearsSession ==
    (IsEntryCommand(last) /\ last.state = END)
    => /\ \E i \in 1..Len(users_file) : users_file[i].id = last.user
       /\ SessionCleared(last.user)
       /\ conversations[LastKey] = CHOOSING_PACKAGE

\* C13: a step in which the inactivity timeout of a conversation fires makes
\* the conversation Idle, leaves the session with no offer, phone number or
\* reference, sends no message and posts nothing to the gateway.
TimeoutClearsSession ==
    [][ last'.kind = "timeout"
        => /\ conversations'[<<last'.chat, last'.user>>] = END
           /\ user_data'[last'.user] = EmptyUserData
           /\ out' = <<>>
           /\ posts' = posts ]_vars

\* the outcome a message of initiate_stk_push reports
OutcomeOf(text) ==
    CASE text = "payment_successful" -> "Success"
      [] text = "payment_processing" -> "Pending"
      [] text = "payment_failed" -> "Failed"
      [] text \in {"error_processing_payment", "system_error"} -> "Error"
      [] OTHER -> "none"

\* the outcome messages among the messages of a step
OutcomeMessages(msgs) == {i \in 1..Len(msgs) : OutcomeOf(msgs[i].text) # "none"}

\* the step handled confirm_purchase and posted a charge to the gateway
ChargedConfirmation(l, reply) ==
    /\ l.kind = "callback"
    /\ l.data = "confirm_purchase"
    /\ l.handler = "handle_confirmation"
    /\ reply # NoResponse

\* C14: whatever the gateway replied to the charge of a confirm_purchase,
\* the conversation is Idle after the step, and an entry command the same
\* user sends next in that chat puts the conversation in CHOOSING_PACKAGE.
AttemptEndsAfterCharge ==
    [][ /\ ChargedConfirmation(last', response')
            => /\ conversations'[<<last'.chat, last'.user>>] = END
               /\ OutcomeMessages(out') # {}
        /\ ( /\ ChargedConfirmation(last, response)
             /\ IsEntryCommand(last')
             /\ last'.chat = last.chat
             /\ last'.user = last.user )
            => conversations'[<<last'.chat, last'.user>>] = CHOOSING_PACKAGE ]_vars

\* C14, witness: the gateway refused a charge (no success flag), the user
\* was told so and the conversation is Idle
FailedChargeEndsAttempt ==
    /\ ChargedConfirmation(last, response)
    /\ ~response.raises
    /\ response.status_code = 200
    /\ response.is_json
    /\ ~response.success
    /\ OutcomeOf(out[Len(out)].text) = "Failed"
    /\ conversations[LastKey] = END

\* the status codes initiate_stk_push takes for a success: 200 and 201
HttpSuccess(status_code) == status_code \in {200, 201}

\* the outcome the gateway's reply stands for
ReplyOutcome(reply) ==
    IF reply.raises \/ ~HttpSuccess(reply.status_code) \/ ~reply.is_json THEN "Error"
    ELSE IF ~reply.success THEN "Failed"
    ELSE IF reply.status = "SUCCESS" THEN "Success"
    ELSE "Pending"

\* C15: the outcome reported for a charge is determined by the gateway's
\* reply (a 200 or 201 with the success flag and status SUCCESS is a
\* Success, with the flag and another status a Pending, without the flag a
\* Failed; another status code, an exception of the request or a body that
\* is no JSON is an Error), and one outcome message is sent per charge.
OutcomeFollowsReply ==
    response # NoResponse
    => /\ Cardinality(OutcomeMessages(out)) = 1
       /\ \A i \in OutcomeMessages(out) : OutcomeOf(out[i].text) = ReplyOutcome(response)

\* C15, witness: the gateway accepted a charge with the status QUEUED and
\* the user was told the payment is being processed
QueuedChargeReportedPending ==
    /\ response # NoResponse
    /\ response.success
    /\ response.status = "QUEUED"
    /\ Len(out) = 2
    /\ out[2].text = "payment_processing"
    /\ posts = 1

\* the users who are not in the authorized-admin set
NonAdmins == Users \ ADMIN_USER_IDS

\* C16: the admin conversation of a user who is no administrator never
\* leaves its terminal state, /admin from such a user is answered with the
\* denial alone, and every broadcast (the loop and each send_message of it)
\* belongs to an update of an administrator.
NonAdminNeverAdministers ==
    [][ /\ \A key \in ConversationKeys :
               key[2] \in NonAdmins => admin_conversations'[key] = END
        /\ (last'.handler = "admin_command" /\ last'.user \in NonAdmins)
               => out' = <<Message(last'.chat, "no_permission", <<>>, <<>>)>>
        /\ (sending' \/ attempted' # attempted) => last'.user \notin NonAdmins ]_vars

\* C16, witness: while the administrator's panel is open in the group chat,
\* the user u1 presses its broadcast button; the press is dropped
NonAdminPressIgnored ==
    /\ last.kind = "callback"
    /\ last.data = "admin_broadcast"
    /\ last.user \in NonAdmins
    /\ last.handler = None
    /\ admin_conversations[<<"c2", "u2">>] = ADMIN_COMMAND
    /\ admin_conversations[LastKey] = END
    /\ ~sending

\* admin_broadcast has sent its tally
BroadcastComplete == ~sending /\ Len(out) = 2 /\ out[1].text = "broadcast_complete"

\* C17: the send_message calls of a broadcast go to the users of the
\* directory in order, one call per user, and when the broadcast is
\* complete every user of the directory was attempted exactly once, however
\* many deliveries or progress edits failed.
EveryUserAttemptedOnce ==
    /\ Len(attempted) <= Len(broadcast_users)
    /\ \A i \in 1..Len(attempted) : attempted[i] = broadcast_users[i].id
    /\ BroadcastComplete =>
           \A i \in 1..Len(broadcast_users) :
               Cardinality({j \in 1..Len(attempted) :
                                attempted[j] = broadcast_users[i].id}) = 1

\* C17, witness: a broadcast to eleven users is complete, one delivery and
\* the edit of the progress message failed, and all eleven were attempted
BroadcastSurvivesFailures ==
    /\ BroadcastComplete
    /\ Len(broadcast_users) = 11
    /\ undelivered = 1
    /\ failed_count = 2
    /\ Len(attempted) = 11

\* C18: the tally of a complete broadcast over N users of which F
\* deliveries failed reports sent = N - F and failed = F.
TallyCountsDeliveries ==
    BroadcastComplete
    => out[1].shows = <<Len(broadcast_users) - undelivered, undelivered>>

\* C19: after a registration the directory has one record for the user and
\* at most one for every user; when the user had a record, the number of
\* records is unchanged, and the record has the name registered in its name
\* fields, the time of the registration as last_active and its joined time
\* unchanged.
RegistrationUpserts ==
    [][ last'.kind = "register"
        => /\ \A u \in Users :
                  Cardinality({i \in 1..Len(users_file') : users_file'[i].id = u}) <= 1
           /\ \E i \in 1..Len(users_file') : users_file'[i].id = last'.user
           /\ (\E i \in 1..Len(users_file) : users_file[i].id = last'.user)
                  => /\ Len(users_file') = Len(users_file)
                     /\ \A i \in 1..Len(users_file) :
                            users_file[i].id = last'.user
                                => /\ users_file'[i].id = last'.user
                                   /\ users_file'[i].username = last'.data
                                   /\ users_file'[i].first_name = last'.data
                                   /\ users_file'[i].last_name = last'.data
                                   /\ users_file'[i].last_active = now
                                   /\ users_file'[i].joined = users_file[i].joined ]_vars

\* C19, witness: of two users in the directory, the one who joined first
\* registered again later, as bob
RegisteredAgainLater ==
    /\ last.kind = "register"
    /\ last.data = "bob"
    /\ Len(users_file) = 2
    /\ users_file[1].id = last.user
    /\ users_file[1].username = "bob"
    /\ users_file[1].joined = 0
    /\ users_file[1].last_active = 2

\* C20: when admin_broadcast has handled a text and returned, the admin
\* conversation is in ADMIN_COMMAND, whatever the directory holds.
BroadcastReturnsToMenu ==
    (last.handler = "admin_broadcast" /\ ~sending)
    => admin_conversations[LastKey] = ADMIN_COMMAND


\* C21: a step that handles admin_exit or /restart for a key whose admin
\* conversation is in ADMIN_COMMAND leaves that admin conversation ended, so
\* that the admin_ buttons pressed afterwards reach no handler until /admin.
ExitAndRestartEndAdminFlow ==
    [][ ( /\ admin_conversations[<<last'.chat, last'.user>>] = ADMIN_COMMAND
          /\ \/ last'.kind = "callback" /\ last'.data = "admin_exit"
             \/ last'.kind = "command" /\ last'.data = "restart" )
        => admin_conversations'[<<last'.chat, last'.user>>] = END ]_vars


\* C22: a step that handles /cancel for a key whose admin conversation is in
\* ADMIN_BROADCAST_MESSAGE ends that admin conversation, starts no broadcast
\* loop, calls send_message for no user of the directory, and sends the
\* administrator's chat the notice of cancellation alone.
CancelSendsNoBroadcast ==
    [][ ( /\ admin_conversations[<<last'.chat, last'.user>>] = ADMIN_BROADCAST_MESSAGE
          /\ ~sending
          /\ last'.kind = "command"
          /\ last'.data = "cancel" )
        => /\ admin_conversations'[<<last'.chat, last'.user>>] = END
           /\ ~sending'
           /\ attempted' = attempted
           /\ pending' = pending
           /\ sent_count' = sent_count
           /\ out' = <<Message(last'.chat, "admin_cancelled", <<>>, <<>>)>> ]_vars

\* C22, witness: /cancel was handled in ADMIN_BROADCAST_MESSAGE while the
\* directory held users and the purchase conversation awaited a phone number
CancelledWhileBroadcasting ==
    /\ last.kind = "command"
    /\ last.data = "cancel"
    /\ last.admin_state = ADMIN_BROADCAST_MESSAGE
    /\ last.state = GETTING_PHONE
    /\ Len(users_file) > 0
    /\ attempted = <<>>
    /\ admin_conversations[LastKey] = END


\* C23: a step that handles admin_stats for a key whose admin conversation is
\* in ADMIN_COMMAND leaves it in ADMIN_COMMAND, sends one message that shows
\* the number of records in the directory, and changes neither the
\* directory, nor any purchase conversation, nor any session, nor any other
\* admin conversation.
StatsReportsDirectorySize ==
    [][ ( /\ admin_conversations[<<last'.chat, last'.user>>] = ADMIN_COMMAND
          /\ last'.kind = "callback"
          /\ last'.data = "admin_stats" )
        => /\ admin_conversations' = admin_conversations
           /\ Len(out') = 1
           /\ out'[1].chat = last'.chat
           /\ out'[1].text = "statistics"
           /\ out'[1].shows = <<Len(users_file)>>
           /\ users_file' = users_file
           /\ conversations' = conversations
           /\ user_data' = user_data ]_vars

\* C23, witness: admin_stats was handled in ADMIN_COMMAND with several users
\* in the directory, and their number was shown
StatsShownForDirectory ==
    /\ last.kind = "callback"
    /\ last.data = "admin_stats"
    /\ last.admin_state = ADMIN_COMMAND
    /\ Len(users_file) > 2
    /\ Len(out) = 1
    /\ out[1].shows = <<Len(users_file)>>
    /\ admin_conversations[LastKey] = ADMIN_COMMAND


\* C24: a registration during which reading or writing the file failed
\* leaves every record the directory held in the directory, unaltered.
FailedRegistrationKeepsRecords ==
    [][ (last'.kind = "register" /\ storage_fault' # "none")
        => \A i \in 1..Len(users_file) :
               \E j \in 1..Len(users_file') : users_file'[j] = users_file[i] ]_vars


\* C25: whenever a charge request is in flight, an update of every other
\* user can be handled.
OthersHandledDuringCharge ==
    in_flight
    => \A key \in GatewayKeys :
           key[2] # last.user
               => ENABLED HandleUpdate(key[1], EffectiveUser(key[2], key[2]))


\* 254 followed by nine digits
IsCanonicalPhone(p) ==
    /\ Len(p) = 12
    /\ StartsWith(p, <<"2", "5", "4">>)
    /\ \A i \in 1..Len(p) : IsDigit(p[i])

\* C26: in every state of a single conversation, GETTING_PHONE implies that
\* the session's package is an offer of the catalog, and CONFIRMING_PURCHASE
\* implies that moreover the session's phone number is 254 followed by nine
\* digits.
SessionFitsState ==
    /\ conversations[ConversationKey] \in {GETTING_PHONE, CONFIRMING_PURCHASE}
           => user_data[ConversationKey[2]].package \in DOMAIN data_packages
    /\ conversations[ConversationKey] = CONFIRMING_PURCHASE
           => IsCanonicalPhone(user_data[ConversationKey[2]].phone_number)

\* C26, witness: the conversation awaits a phone number again, change_phone
\* having been pressed on the summary of the offer data_1
PhoneAwaitedAgain ==
    /\ conversations[ConversationKey] = GETTING_PHONE
    /\ last.data = "change_phone"
    /\ last.state = CONFIRMING_PURCHASE
    /\ user_data[ConversationKey[2]].package = "data_1"


\* the offers that can be selected in a chat, and the phone numbers that can
\* be entered and summarized in it
OffersSelectedIn(chat) == {GetPackage(b) : b \in Buttons(chat)} \ {None}
PhonesEnteredIn(chat) ==
    {is_valid_phone_number(Strip(t)) : t \in Texts(chat)} \ {NoPhone}

\* C27: a step that handles confirm_purchase in CONFIRMING_PURCHASE in a chat
\* posts one charge request, for the price of an offer selected in that chat
\* and to a phone number entered in that chat, whatever was handled in the
\* user's other chat.
ConfirmChargesOwnChat ==
    [][ ( /\ last'.kind = "callback"
          /\ last'.data = "confirm_purchase"
          /\ last'.handler = "handle_confirmation"
          /\ conversations[<<last'.chat, last'.user>>] = CONFIRMING_PURCHASE )
        => /\ posts' = posts + 1
           /\ request'.amount \in
                  {data_packages[o].price : o \in OffersSelectedIn(last'.chat)}
           /\ request'.phone_number \in PhonesEnteredIn(last'.chat) ]_vars


\* C28: a step that handles a text of a user whose admin conversation is in
\* ADMIN_BROADCAST_MESSAGE is handled by admin_broadcast and changes neither
\* the user's session nor any purchase conversation, whatever the state of
\* the user's purchase conversation; and a step handled by get_phone_number
\* starts no broadcast.
BroadcastTextReachesAdmin ==
    [][ /\ ( /\ last'.kind = "text"
             /\ ~sending
             /\ admin_conversations[<<last'.chat, last'.user>>]
                    = ADMIN_BROADCAST_MESSAGE )
           => /\ last'.handler = "admin_broadcast"
              /\ user_data' = user_data
              /\ conversations' = conversations
        /\ last'.handler = "get_phone_number"
           => /\ ~sending'
              /\ attempted' = attempted ]_vars


\* a step in which an update of the conversation is handled by a handler
EventHandledFor(key) ==
    /\ last'.chat = key[1]
    /\ last'.user = key[2]
    /\ last'.kind \in {"command", "callback", "text"}
    /\ last'.handler # None

\* C29: with the timeout jobs run fairly, every conversation is ended again
\* and again, or updates of it are handled again and again: no conversation
\* stays in CHOOSING_PACKAGE, GETTING_PHONE or CONFIRMING_PURCHASE for ever
\* with no update of it handled any more.
NoConversationStalls ==
    \A key \in PurchaseKeys :
        \/ []<>(conversations[key] = END)
        \/ []<><<EventHandledFor(key)>>_vars

=============================================================================
